---- MODULE Spec2Model ----
(***************************************************************************)
(* Model of src/app.py: the EtherCAT link of the fan controller.           *)
(*                                                                         *)
(* Three callbacks run concurrently in the Dash server:                    *)
(*   "ui"  handle_fan_control        (apply speed / stop)                  *)
(*   "rec" reconnect_ethercat_manual (manual reconnect button)             *)
(*   "sup" check_ethercat_status     (periodic check, every 2000 ms)       *)
(* They share the globals master, adecua_slave, ethercat_status_message    *)
(* and the lock ethercat_lock.  The pysoem library and the bus are the     *)
(* environment: every library call either succeeds, reports a state, or    *)
(* raises.                                                                 *)
(*                                                                         *)
(* Speeds and voltages are fixed-point numbers in thousandths (12.0 km/h   *)
(* is 12000); a text with two decimals is the number of hundredths it      *)
(* shows ("10.00" is 1000).  Timestamps are left out of log records and    *)
(* status texts.                                                           *)
(***************************************************************************)
EXTENDS Integers, Sequences, FiniteSets, TLC

\* ------------------------------------------------------------------ bounds
MaxIfaces == 2      \* network interfaces the enumeration can return
MaxMasters == 2     \* identities available for live pysoem.Master objects
GridSteps == 200    \* grid points per side of the speed and voltage grids
SpeedRange == 100   \* the speed grid spans -SpeedRange .. SpeedRange km/h

\* ------------------------------------------------------- program constants
MAX_KMH == 10
MAX_VOLTAGE == 10
RAW_FULL_SCALE == 32767   \* line 169: the raw value of MAX_VOLTAGE

Tasks == {"ui", "rec", "sup"}
Recoverers == {"rec", "sup"}

\* The speeds typed into input-kmh (thousandths of km/h): below the range,
\* inside it with a third decimal, above it.
Speeds == {-5000, 3333, 12000}
Kinds == {"apply", "stop"}

SlaveStates == {"INIT", "PRE_OP", "SAFE_OP", "OP", "ERROR"}
FaultKinds == {"soem", "generic"}

\* What the committed slave reports while the bus runs: OPERATIONAL, or the
\* SAFE_OP it falls back to.
LiveStates == {"OP", "SAFE_OP"}

\* None for the two globals and for the locals of the bring-up loop.
NoMaster == [id |-> 0, iface |-> 0, op |-> FALSE]
NoSlave == [owner |-> 0, state |-> "NONE"]

\* pysoem.master.interfaces: a list of up to MaxIfaces distinct interfaces.
\* The program never looks at a name, so the interfaces are named by their
\* place in the list.
IfaceLists == {[i \in 1..n |-> i] : n \in 0..MaxIfaces}

VARIABLES
  lock,                     \* ethercat_lock: "free" or the task holding it
  master,                   \* global master
  adecua_slave,             \* global adecua_slave
  ethercat_status_message,  \* global status text (its kind)
  opened,                   \* ids of the Master objects opened and not closed
  log,                      \* logs/controllo_log.csv: the rows appended since the
                            \* request being served started
  pc,                       \* where each callback is
  req,                      \* locals of handle_fan_control / send_to_device
  bu,                       \* locals of initialize_ethercat_device_logic
  ioErrorPending,           \* a write tore the link down and no bring-up has started since
  initAttempted             \* initialize_ethercat_device_logic was entered since process start

vars == <<lock, master, adecua_slave, ethercat_status_message, opened, log,
          pc, req, bu, ioErrorPending, initAttempted>>

Req0 == [kind |-> "none", kmh_value |-> 0, kmh_to_send |-> 0,
         voltage_to_send |-> 0, linkReady |-> FALSE, used |-> 0, io |-> {},
         send_success |-> FALSE, outcome |-> "none", failed |-> FALSE,
         raw |-> -1]

Bu0 == [ifaces |-> <<>>, idx |-> 0, cur |-> NoMaster, curSlave |-> NoSlave,
        outcomes |-> <<>>, result |-> "none", sawHealthy |-> FALSE,
        settled |-> FALSE, abandoned |-> "none"]

\* ------------------------------------------------------------ pure helpers
Max(a, b) == IF a >= b THEN a ELSE b
Min(a, b) == IF a <= b THEN a ELSE b

\* f"{x:.2f}": the hundredths shown, for x in thousandths.
Format2(x) == IF x >= 0 THEN (x + 5) \div 10 ELSE -((-x + 5) \div 10)

calculate_voltage_unclamped(kmh) == (kmh * MAX_VOLTAGE) \div MAX_KMH

calculate_voltage(kmh) ==
  LET k == Max(0, Min(kmh, MAX_KMH * 1000))
  IN (k * MAX_VOLTAGE) \div MAX_KMH

\* lines 273-285: what the request sends and logs.
kmh_to_send(kind, kmh_value) == IF kind = "stop" THEN 0 ELSE kmh_value

voltage_to_send_stop_ignored(kind, kmh_value) == calculate_voltage(kmh_value)

voltage_to_send(kind, kmh_value) ==
  IF kind = "stop" THEN 0 ELSE calculate_voltage(kmh_value)

\* lines 168-170: the raw value put into the output bytes, for a voltage in
\* thousandths of a volt: clamp, scale, int() (which drops the fraction),
\* clamp again.
raw_value(voltage) ==
  LET v == Max(0, Min(voltage, MAX_VOLTAGE * 1000))
      raw == (v * RAW_FULL_SCALE) \div (MAX_VOLTAGE * 1000)
  IN Max(0, Min(raw, RAW_FULL_SCALE))

\* line 291-292: the "(Invio EtherCAT fallito!)" marker.
output_volt_failed_never(send_success) == FALSE

output_volt_failed(send_success) == ~send_success

\* line 294 and log_action: the row appended after the send.
\* The file is only ever appended to and the program never reads it back
\* for a decision: the model keeps the end of the file, from where it ended
\* when the request being served started.
log_action_on_success(l, send_success, kmh, voltage) ==
  IF send_success
    THEN Append(l, [speed |-> Format2(kmh), voltage |-> Format2(voltage)])
    ELSE l

log_action(l, send_success, kmh, voltage) ==
  Append(l, [speed |-> Format2(kmh), voltage |-> Format2(voltage)])

\* ------------------------------------------------------------- the lock
lock_available_unguarded(t) == TRUE

lock_available(t) == lock = "free"

\* The end of a with ethercat_lock block, by return or by exception: the
\* lock the holder had is released.
lock_after_with_kept(holder) == holder

lock_after_with(holder) == "free"

\* ------------------------------------------------------ health of the link
\* What "ready"/"healthy" means (spec 4.2, 4.3), read off the state.
LinkHealthy ==
  /\ master # NoMaster
  /\ adecua_slave # NoSlave
  /\ master.op
  /\ adecua_slave.state = "OP"

\* line 153
not_initialized(m, s) == m = NoMaster \/ s = NoSlave

\* lines 159-161
not_operational_both(master_operational, slave_operational) ==
  ~master_operational /\ ~slave_operational

not_operational(master_operational, slave_operational) ==
  ~master_operational \/ ~slave_operational

\* lines 335-336
current_state_ok_never(m, master_operational, s) == FALSE

current_state_ok(m, master_operational, s) ==
  m # NoMaster /\ master_operational /\ s # NoSlave /\ s.state = "OP"

Init ==
  /\ lock = "free"
  /\ master = NoMaster
  /\ adecua_slave = NoSlave
  /\ ethercat_status_message = "Inattivo"
  /\ opened = {}
  /\ log = <<>>
  /\ pc = [t \in Tasks |-> "idle"]
  /\ req = Req0
  /\ bu = [t \in Recoverers |-> Bu0]
  /\ ioErrorPending = FALSE
  /\ initAttempted = FALSE

\* ---------------------------------------------------------- environment
\* The bus changes what the live master and slave report.
BusEvent ==
  /\ master # NoMaster
  /\ adecua_slave # NoSlave
  /\ \E b \in BOOLEAN, s \in LiveStates :
       /\ <<b, s>> # <<master.op, adecua_slave.state>>
       /\ master' = [master EXCEPT !.op = b]
       /\ adecua_slave' = [adecua_slave EXCEPT !.state = s]
  /\ UNCHANGED <<lock, ethercat_status_message, opened, log, pc, req, bu, ioErrorPending, initAttempted>>

\* ------------------------------------------ handle_fan_control, first half
\* lines 267-288: the callback starts and computes what to send.
FanRequestFrom(kinds, speeds) ==
  /\ pc["ui"] = "idle"
  /\ \E kind \in kinds, kmh_value \in speeds :
       req' = [Req0 EXCEPT !.kind = kind, !.kmh_value = kmh_value,
                           !.kmh_to_send = kmh_to_send(kind, kmh_value),
                           !.voltage_to_send = voltage_to_send(kind, kmh_value)]
  /\ pc' = [pc EXCEPT !["ui"] = "send_wait"]
  /\ UNCHANGED <<lock, master, adecua_slave, ethercat_status_message, opened,
                 log, bu, ioErrorPending, initAttempted>>

FanRequest == FanRequestFrom(Kinds, Speeds)

\* ------------------------------------------------------- send_to_device
\* line 151: with ethercat_lock
SendAcquire ==
  /\ pc["ui"] = "send_wait"
  /\ lock_available("ui")
  /\ lock' = "ui"
  /\ pc' = [pc EXCEPT !["ui"] = "send_check"]
  /\ UNCHANGED <<master, adecua_slave, ethercat_status_message, opened, log,
                 req, bu, ioErrorPending, initAttempted>>

\* lines 153-156: a handle is missing, return False.
SendNotInitialized ==
  /\ pc["ui"] = "send_check"
  /\ not_initialized(master, adecua_slave)
  /\ ethercat_status_message' = "NonInit"
  /\ req' = [req EXCEPT !.linkReady = LinkHealthy, !.used = master.id,
                        !.send_success = FALSE, !.outcome = "notready"]
  /\ pc' = [pc EXCEPT !["ui"] = "send_exit"]
  /\ UNCHANGED <<lock, master, adecua_slave, opened, log, bu, ioErrorPending, initAttempted>>

\* line 159: master.is_state raises; nothing catches it, the with block lets
\* go of the lock and the callback ends with the exception.
SendStateQueryFault ==
  /\ pc["ui"] = "send_check"
  /\ ~not_initialized(master, adecua_slave)
  /\ lock' = lock_after_with("ui")
  /\ req' = Req0
  /\ pc' = [pc EXCEPT !["ui"] = "fault"]
  /\ UNCHANGED <<master, adecua_slave, ethercat_status_message, opened, log,
                 bu, ioErrorPending, initAttempted>>

\* lines 159-165: both handles exist, one of them is not OPERATIONAL.
SendNotOperational ==
  /\ pc["ui"] = "send_check"
  /\ ~not_initialized(master, adecua_slave)
  /\ not_operational(master.op, adecua_slave.state = "OP")
  /\ ethercat_status_message' = "NOK"
  /\ req' = [req EXCEPT !.linkReady = LinkHealthy, !.used = master.id,
                        !.send_success = FALSE, !.outcome = "notready"]
  /\ pc' = [pc EXCEPT !["ui"] = "send_exit"]
  /\ UNCHANGED <<lock, master, adecua_slave, opened, log, bu, ioErrorPending, initAttempted>>

\* lines 159-166: both checks pass, the try block is entered.
SendReady ==
  /\ pc["ui"] = "send_check"
  /\ ~not_initialized(master, adecua_slave)
  /\ ~not_operational(master.op, adecua_slave.state = "OP")
  /\ req' = [req EXCEPT !.linkReady = LinkHealthy, !.used = master.id]
  /\ pc' = [pc EXCEPT !["ui"] = "send_io"]
  /\ UNCHANGED <<lock, master, adecua_slave, ethercat_status_message, opened,
                 log, bu, ioErrorPending, initAttempted>>

\* lines 167-180: output bytes written, frame sent and received.
SendOk ==
  /\ pc["ui"] = "send_io"
  /\ ethercat_status_message' = "OKUltima"
  /\ req' = [req EXCEPT !.io = {"output", "send", "receive"},
                        !.raw = raw_value(req.voltage_to_send),
                        !.send_success = TRUE, !.outcome = "ok"]
  /\ pc' = [pc EXCEPT !["ui"] = "send_exit"]
  /\ UNCHANGED <<lock, master, adecua_slave, opened, log, bu, ioErrorPending, initAttempted>>

\* The bus operations issued when the exchange raises at `stage`.
IssuedUpTo(stage) ==
  CASE stage = "output" -> {}
    [] stage = "send" -> {"output", "send"}
    [] stage = "receive" -> {"output", "send", "receive"}

\* lines 190-191, 201-202: the globals after an I/O error.
master_after_io_error_kept(m) == m

master_after_io_error(m) == NoMaster

\* lines 182-203: the exchange raises (SOEMError or any other exception):
\* close the master, clear both handles, return False.
SendIOError ==
  /\ pc["ui"] = "send_io"
  /\ \E stage \in {"output", "send", "receive"}, k \in FaultKinds :
       /\ ethercat_status_message' = IF k = "soem" THEN "ErrSOEM" ELSE "ErrGen"
       /\ req' = [req EXCEPT !.io = IssuedUpTo(stage),
                             !.raw = IF "output" \in IssuedUpTo(stage)
                                       THEN raw_value(req.voltage_to_send)
                                       ELSE -1,
                             !.send_success = FALSE, !.outcome = "ioerror"]
  /\ opened' = opened \ {master.id}
  /\ master' = master_after_io_error(master)
  /\ adecua_slave' = NoSlave
  /\ ioErrorPending' = TRUE
  /\ pc' = [pc EXCEPT !["ui"] = "send_exit"]
  /\ UNCHANGED <<lock, log, bu, initAttempted>>

\* ----------------------------------------- handle_fan_control, second half
\* lines 289-294: whatever send_to_device returned, the callback goes on to
\* the marker and the log row; it does not call send_to_device again.
pc_after_send_retry(send_success) ==
  IF send_success THEN "fan_logged" ELSE "send_wait"

pc_after_send(send_success) == "fan_logged"

\* The with block ends (lock released); lines 289-294: the marker is added
\* to the voltage text on failure and the row is appended to the log.
SendRelease ==
  /\ pc["ui"] = "send_exit"
  /\ lock' = lock_after_with("ui")
  /\ req' = [req EXCEPT !.failed = output_volt_failed(req.send_success),
                        !.linkReady = FALSE, !.used = 0, !.io = {},
                        !.raw = -1]
  /\ log' = log_action(log, req.send_success, req.kmh_to_send,
                       req.voltage_to_send)
  /\ pc' = [pc EXCEPT !["ui"] = pc_after_send(req.send_success)]
  /\ UNCHANGED <<master, adecua_slave, ethercat_status_message, opened, bu,
                 ioErrorPending, initAttempted>>

\* line 296: return the texts; ethercat_status_message is read here.
FanReturn ==
  /\ pc["ui"] = "fan_logged"
  /\ req' = Req0
  /\ log' = <<>>
  /\ pc' = [pc EXCEPT !["ui"] = "idle"]
  /\ UNCHANGED <<lock, master, adecua_slave, ethercat_status_message, opened,
                 bu, ioErrorPending, initAttempted>>

\* The server answers the request that ended with an exception.
FaultAnswered(t) ==
  /\ pc[t] = "fault"
  /\ pc' = [pc EXCEPT ![t] = "idle"]
  /\ UNCHANGED <<lock, master, adecua_slave, ethercat_status_message, opened,
                 log, req, bu, ioErrorPending, initAttempted>>

\* ------------------------------------- initialize_ethercat_device_logic
ExitPc(t) == IF t = "rec" THEN "rec_exit" ELSE "chk_exit"

\* lines 314/317 and 342/345: the status text the caller sets from the result.
status_after_init_always_ok(t, ok) ==
  IF t = "rec" THEN "Riconnesso" ELSE "Connesso"

status_after_init(t, ok) ==
  IF t = "rec"
    THEN (IF ok THEN "Riconnesso" ELSE "ErrManuale")
    ELSE (IF ok THEN "Connesso" ELSE "Disconnesso")

\* Identities of Master objects still referenced or still open.
InUse ==
  opened \cup {master.id, adecua_slave.owner}
         \cup {bu[t].cur.id : t \in Recoverers}
         \cup {bu[t].curSlave.owner : t \in Recoverers}

FreshIds == {i \in 1..MaxMasters : i \notin InUse}
FreshId == CHOOSE i \in FreshIds : \A j \in FreshIds : i <= j

SetLast(seq, v) == [seq EXCEPT ![Len(seq)] = v]

\* What the bus did on the interface being tried, one entry per interface
\* opened: "found" (opened, device present), "safeop" (then seen in SAFE_OP),
\* "ok" (then seen in OPERATIONAL), "failed" (any step did not succeed).
Seen(outcomes, o, wanted, before, after) ==
  SetLast(outcomes,
          IF outcomes[Len(outcomes)] = before /\ o = wanted
            THEN after ELSE "failed")

\* lines 38-46: an existing master is closed and both globals are reset.
opened_after_close_leaked(m) == opened

opened_after_close(m) == IF m # NoMaster THEN opened \ {m.id} ELSE opened

master_after_close(m) == IF m # NoMaster THEN NoMaster ELSE m

slave_after_close_kept(m, s) == s

slave_after_close(m, s) == IF m # NoMaster THEN NoSlave ELSE s

\* lines 49-51: the 3 s wait is taken when master is None at that point,
\* which is after lines 38-46.
settle_delay(m) == m = NoMaster

\* initialize_ethercat_device_logic returns `ok` to caller t, which sets the
\* status text (the caller's if/else after the call).
InitReturns(t, b, ok) ==
  /\ bu' = [bu EXCEPT ![t] = [b EXCEPT !.cur = NoMaster, !.curSlave = NoSlave,
                                      !.result = IF ok THEN "ok" ELSE "fail"]]
  /\ ethercat_status_message' = status_after_init(t, ok)
  /\ pc' = [pc EXCEPT ![t] = ExitPc(t)]

\* lines 38-63: close the old master, wait, enumerate: the list is empty or
\* the enumeration raises, return False.
InitNoInterfaces(t) ==
  /\ pc[t] = "init_begin"
  /\ opened' = opened_after_close(master)
  /\ master' = master_after_close(master)
  /\ adecua_slave' = slave_after_close(master, adecua_slave)
  /\ ioErrorPending' = FALSE
  /\ initAttempted' = TRUE
  /\ InitReturns(t, [bu[t] EXCEPT
                       !.settled = settle_delay(master_after_close(master))],
                 FALSE)
  /\ UNCHANGED <<lock, log, req>>

\* lines 38-66: close the old master, wait, enumerate: the loop starts.
InitEnumerated(t) ==
  /\ pc[t] = "init_begin"
  /\ opened' = opened_after_close(master)
  /\ master' = master_after_close(master)
  /\ adecua_slave' = slave_after_close(master, adecua_slave)
  /\ ioErrorPending' = FALSE
  /\ initAttempted' = TRUE
  /\ \E l \in IfaceLists :
       /\ l # <<>>
       /\ bu' = [bu EXCEPT ![t] = [@ EXCEPT
                   !.ifaces = l, !.idx = 1,
                   !.settled = settle_delay(master_after_close(master))]]
  /\ pc' = [pc EXCEPT ![t] = "iface_open"]
  /\ UNCHANGED <<lock, ethercat_status_message, log, req>>

\* The loop is done with the current interface: the next one, or lines
\* 141-144 when the list is exhausted (globals reset, return False).
\* `why` is the step that did not succeed ("open", "device", "safeop", "op").
Abandon(t, out, why) ==
  LET b == [bu[t] EXCEPT !.outcomes = out, !.abandoned = why]
  IN IF b.idx < Len(b.ifaces)
       THEN /\ bu' = [bu EXCEPT ![t] = [b EXCEPT !.idx = b.idx + 1,
                                                 !.cur = NoMaster,
                                                 !.curSlave = NoSlave]]
            /\ pc' = [pc EXCEPT ![t] = "iface_open"]
            /\ UNCHANGED <<master, adecua_slave, ethercat_status_message>>
       ELSE /\ master' = NoMaster
            /\ adecua_slave' = NoSlave
            /\ InitReturns(t, b, FALSE)

\* lines 87, 121-125, 132-136: the abandoned master is closed.
opened_after_abandon_leaked(os, m) == os

opened_after_abandon(os, m) == os \ {m.id}

\* lines 98, 107: the slave reports the state that was asked for.
state_reached_unchecked(observed, wanted) == TRUE

state_reached(observed, wanted) == observed = wanted

\* line 71 raises: no Master object exists, the handler has nothing to close.
IfaceOpenFails(t) ==
  /\ pc[t] = "iface_open"
  /\ Abandon(t, Append(bu[t].outcomes, "failed"), "open")
  /\ UNCHANGED <<lock, opened, log, req, ioErrorPending, initAttempted>>

\* lines 71-88: the master is opened, then config_init or config_dc raises,
\* or no slave has the EL4001's vendor id and product code: close, next.
IfaceNoDevice(t) ==
  /\ pc[t] = "iface_open"
  /\ FreshIds # {}
  /\ Abandon(t, Append(bu[t].outcomes, "failed"), "device")
  /\ opened' = opened_after_abandon(opened \cup {FreshId},
                                    [NoMaster EXCEPT !.id = FreshId])
  /\ UNCHANGED <<lock, log, req, ioErrorPending, initAttempted>>

\* lines 71-91: the master is opened and the EL4001 is among its slaves.
IfaceFound(t) ==
  /\ pc[t] = "iface_open"
  /\ FreshIds # {}
  /\ LET b == bu[t]
         m == [id |-> FreshId, iface |-> b.ifaces[b.idx], op |-> TRUE]
     IN bu' = [bu EXCEPT ![t] = [b EXCEPT
                 !.cur = m,
                 !.curSlave = [owner |-> m.id, state |-> "PRE_OP"],
                 !.outcomes = Append(b.outcomes, "found")]]
  /\ opened' = opened \cup {FreshId}
  /\ pc' = [pc EXCEPT ![t] = "iface_safeop"]
  /\ UNCHANGED <<lock, master, adecua_slave, ethercat_status_message, log,
                 req, ioErrorPending, initAttempted>>

\* lines 92-100, 119-139: config_map, state_check or read_state raises, or
\* the slave is not in SAFE_OP after the poll: close, next interface.
IfaceSafeOpFails(t) ==
  /\ pc[t] = "iface_safeop"
  /\ \E o \in {"fault"} \cup SlaveStates :
       /\ o = "fault" \/ ~state_reached(o, "SAFE_OP")
       /\ Abandon(t, Seen(bu[t].outcomes, o, "SAFE_OP", "found", "safeop"),
                  "safeop")
  /\ opened' = opened_after_abandon(opened, bu[t].cur)
  /\ UNCHANGED <<lock, log, req, ioErrorPending, initAttempted>>

\* lines 92-101: the slave is seen in SAFE_OP.
IfaceSafeOp(t) ==
  /\ pc[t] = "iface_safeop"
  /\ \E o \in SlaveStates :
       /\ state_reached(o, "SAFE_OP")
       /\ bu' = [bu EXCEPT ![t] = [@ EXCEPT
                   !.curSlave.state = o,
                   !.outcomes = Seen(@, o, "SAFE_OP", "found", "safeop")]]
  /\ pc' = [pc EXCEPT ![t] = "iface_op"]
  /\ UNCHANGED <<lock, master, adecua_slave, ethercat_status_message, opened,
                 log, req, ioErrorPending, initAttempted>>

\* lines 104-109, 119-139: state_check or read_state raises, or the slave is
\* not in OPERATIONAL after the poll: close, next interface.
IfaceOpFails(t) ==
  /\ pc[t] = "iface_op"
  /\ \E o \in {"fault"} \cup SlaveStates :
       /\ o = "fault" \/ ~state_reached(o, "OP")
       /\ Abandon(t, Seen(bu[t].outcomes, o, "OP", "safeop", "ok"), "op")
  /\ opened' = opened_after_abandon(opened, bu[t].cur)
  /\ UNCHANGED <<lock, log, req, ioErrorPending, initAttempted>>

\* line 115: the master the globals take on success.
committed_master(t) == bu[t].cur

\* lines 104-117: the slave is seen in OPERATIONAL: commit both handles and
\* return True; no further interface is tried.
IfaceCommit(t) ==
  /\ pc[t] = "iface_op"
  /\ \E o \in SlaveStates :
       /\ state_reached(o, "OP")
       /\ master' = committed_master(t)
       /\ adecua_slave' = [bu[t].curSlave EXCEPT !.state = o]
       /\ InitReturns(t, [bu[t] EXCEPT !.outcomes =
                             Seen(@, o, "OP", "safeop", "ok")],
                     TRUE)
  /\ UNCHANGED <<lock, opened, log, req, ioErrorPending, initAttempted>>

\* ----------------------------------------------- reconnect_ethercat_manual
\* lines 305-311: the button was pressed.
RecClick ==
  /\ pc["rec"] = "idle"
  /\ pc' = [pc EXCEPT !["rec"] = "rec_wait"]
  /\ UNCHANGED <<lock, master, adecua_slave, ethercat_status_message, opened,
                 log, req, bu, ioErrorPending, initAttempted>>

\* lines 312-313: with ethercat_lock, straight into the bring-up.
RecAcquire ==
  /\ pc["rec"] = "rec_wait"
  /\ lock_available("rec")
  /\ lock' = "rec"
  /\ bu' = [bu EXCEPT !["rec"].sawHealthy = LinkHealthy]
  /\ pc' = [pc EXCEPT !["rec"] = "init_begin"]
  /\ UNCHANGED <<master, adecua_slave, ethercat_status_message, opened, log,
                 req, ioErrorPending, initAttempted>>

\* ---------------------------------------------------- check_ethercat_status
\* line 329: the interval fires.
Tick ==
  /\ pc["sup"] = "idle"
  /\ pc' = [pc EXCEPT !["sup"] = "chk_wait"]
  /\ UNCHANGED <<lock, master, adecua_slave, ethercat_status_message, opened,
                 log, req, bu, ioErrorPending, initAttempted>>

\* line 334: with ethercat_lock
ChkAcquire ==
  /\ pc["sup"] = "chk_wait"
  /\ lock_available("sup")
  /\ lock' = "sup"
  /\ pc' = [pc EXCEPT !["sup"] = "chk_eval"]
  /\ UNCHANGED <<master, adecua_slave, ethercat_status_message, opened, log,
                 req, bu, ioErrorPending, initAttempted>>

\* line 335: master.is_state raises (it is called only when master is set);
\* nothing catches it, the lock is released and the callback ends.
ChkStateQueryFault ==
  /\ pc["sup"] = "chk_eval"
  /\ master # NoMaster
  /\ lock' = lock_after_with("sup")
  /\ pc' = [pc EXCEPT !["sup"] = "fault"]
  /\ UNCHANGED <<master, adecua_slave, ethercat_status_message, opened, log,
                 req, bu, ioErrorPending, initAttempted>>

\* lines 335-338: current_state_ok is evaluated and the branch is taken.
ChkEval ==
  /\ pc["sup"] = "chk_eval"
  /\ bu' = [bu EXCEPT !["sup"].sawHealthy = LinkHealthy]
  /\ pc' = [pc EXCEPT !["sup"] =
              IF current_state_ok(master, master.op, adecua_slave)
                THEN "chk_ok" ELSE "init_begin"]
  /\ UNCHANGED <<lock, master, adecua_slave, ethercat_status_message, opened,
                 log, req, ioErrorPending, initAttempted>>

\* line 350: "Connesso e in OPERATIONAL" in ethercat_status_message, for each
\* text the program sets ("Riconnesso e in OPERATIONAL." has a small c).
ContainsConnesso(msg) == msg = "Connesso"

\* lines 348-353: the link is fine, the text is set unless it says so already.
ChkKeep ==
  /\ pc["sup"] = "chk_ok"
  /\ IF ContainsConnesso(ethercat_status_message)
       THEN UNCHANGED ethercat_status_message
       ELSE ethercat_status_message' = "Connesso"
  /\ pc' = [pc EXCEPT !["sup"] = "chk_exit"]
  /\ UNCHANGED <<lock, master, adecua_slave, opened, log, req, bu,
                 ioErrorPending, initAttempted>>

\* The with block of either callback ends: the lock is released.
Release(t) ==
  /\ pc[t] = ExitPc(t)
  /\ lock' = lock_after_with(t)
  /\ bu' = [bu EXCEPT ![t] = Bu0]
  /\ pc' = [pc EXCEPT ![t] = IF t = "rec" THEN "rec_ret" ELSE "chk_ret"]
  /\ UNCHANGED <<master, adecua_slave, ethercat_status_message, opened, log,
                 req, ioErrorPending, initAttempted>>

\* lines 320, 355: return ethercat_status_message, read after the with block.
Return(t) ==
  /\ pc[t] = IF t = "rec" THEN "rec_ret" ELSE "chk_ret"
  /\ pc' = [pc EXCEPT ![t] = "idle"]
  /\ UNCHANGED <<lock, master, adecua_slave, ethercat_status_message, opened,
                 log, req, bu, ioErrorPending, initAttempted>>

\* Every step but the start of a fan request.
OtherSteps ==
  \/ BusEvent
  \/ SendAcquire
  \/ SendNotInitialized
  \/ SendStateQueryFault
  \/ SendNotOperational
  \/ SendReady
  \/ SendOk
  \/ SendIOError
  \/ SendRelease
  \/ FanReturn
  \/ RecClick
  \/ RecAcquire
  \/ Tick
  \/ ChkAcquire
  \/ ChkStateQueryFault
  \/ ChkEval
  \/ ChkKeep
  \/ \E t \in Tasks : FaultAnswered(t)
  \/ \E t \in Recoverers :
       \/ InitNoInterfaces(t)
       \/ InitEnumerated(t)
       \/ IfaceOpenFails(t)
       \/ IfaceNoDevice(t)
       \/ IfaceFound(t)
       \/ IfaceSafeOpFails(t)
       \/ IfaceSafeOp(t)
       \/ IfaceOpFails(t)
       \/ IfaceCommit(t)
       \/ Release(t)
       \/ Return(t)

Next == FanRequest \/ OtherSteps

Spec == Init /\ [][Next]_vars

\* ------------------------------------------------------------- scheduling
\* What a callback does once it was started.  Every bus call made under the
\* lock returns or raises within its timeout (2000 ms, 1000 ms) and the
\* sleeps end, so a started callback keeps taking steps; which outcome a
\* bus call has stays open.
UiRuns ==
  \/ SendAcquire
  \/ SendNotInitialized
  \/ SendStateQueryFault
  \/ SendNotOperational
  \/ SendReady
  \/ SendOk
  \/ SendIOError
  \/ SendRelease
  \/ FanReturn
  \/ FaultAnswered("ui")

BringUpRuns(t) ==
  \/ InitNoInterfaces(t)
  \/ InitEnumerated(t)
  \/ IfaceOpenFails(t)
  \/ IfaceNoDevice(t)
  \/ IfaceFound(t)
  \/ IfaceSafeOpFails(t)
  \/ IfaceSafeOp(t)
  \/ IfaceOpFails(t)
  \/ IfaceCommit(t)
  \/ Release(t)
  \/ Return(t)

RecRuns == RecAcquire \/ BringUpRuns("rec")

\* dcc.Interval (line 251) fires every 2000 ms: Tick belongs to what the
\* periodic check keeps doing.
SupRuns ==
  \/ Tick
  \/ ChkAcquire
  \/ ChkStateQueryFault
  \/ ChkEval
  \/ ChkKeep
  \/ FaultAnswered("sup")
  \/ BringUpRuns("sup")

\* Fair scheduling: a callback that can take a step again and again takes
\* one; for a callback waiting at with ethercat_lock this means it gets the
\* lock if the lock is free again and again.  Button presses (FanRequest,
\* RecClick) and bus events need not happen.
Fairness == SF_vars(UiRuns) /\ SF_vars(RecRuns) /\ SF_vars(SupRuns)

\* Which button was pressed and which speed was typed in decide nothing
\* about the lock or the bring-up: under fair scheduling the fan requests
\* are apply requests with one speed.
FanRequestLive == FanRequestFrom({"apply"}, {3333})

NextLive == FanRequestLive \/ OtherSteps

SpecLive == Init /\ [][NextLive]_vars /\ Fairness

\* ------------------------------------------- the two conversions on a grid
\* calculate_voltage and the quantisation of send_to_device are functions of
\* their argument alone.  This specification starts with an argument from a
\* grid (a speed for calculate_voltage, a voltage for send_to_device) and
\* applies the function to it.
SpeedGrid ==
  {(k * SpeedRange * 1000) \div GridSteps : k \in (-GridSteps)..GridSteps}
    \cup {0, MAX_KMH * 1000, (MAX_KMH + 5) * 1000}

\* Voltages from -MAX_VOLTAGE to 2 * MAX_VOLTAGE.
VoltageGrid ==
  {(k * MAX_VOLTAGE * 1000) \div GridSteps : k \in (-GridSteps)..(2 * GridSteps)}

InitCalc ==
  /\ lock = "free"
  /\ master = NoMaster
  /\ adecua_slave = NoSlave
  /\ ethercat_status_message = "Inattivo"
  /\ opened = {}
  /\ log = <<>>
  /\ pc = [t \in Tasks |-> "idle"]
  /\ bu = [t \in Recoverers |-> Bu0]
  /\ ioErrorPending = FALSE
  /\ initAttempted = FALSE
  /\ \/ \E k \in SpeedGrid :
          req = [Req0 EXCEPT !.kind = "apply", !.kmh_value = k]
     \/ \E v \in VoltageGrid :
          req = [Req0 EXCEPT !.kind = "write", !.voltage_to_send = v]

\* line 283: voltage_to_send = calculate_voltage(kmh_value)
CalcVoltage ==
  /\ pc["ui"] = "idle"
  /\ req.kind = "apply"
  /\ req' = [req EXCEPT !.voltage_to_send = calculate_voltage(req.kmh_value)]
  /\ pc' = [pc EXCEPT !["ui"] = "calc_done"]
  /\ UNCHANGED <<lock, master, adecua_slave, ethercat_status_message, opened,
                 log, bu, ioErrorPending, initAttempted>>

\* lines 168-173: the raw value for the voltage send_to_device was given.
CalcRaw ==
  /\ pc["ui"] = "idle"
  /\ req.kind = "write"
  /\ req' = [req EXCEPT !.raw = raw_value(req.voltage_to_send)]
  /\ pc' = [pc EXCEPT !["ui"] = "calc_done"]
  /\ UNCHANGED <<lock, master, adecua_slave, ethercat_status_message, opened,
                 log, bu, ioErrorPending, initAttempted>>

NextCalc == CalcVoltage \/ CalcRaw

SpecCalc == InitCalc /\ [][NextCalc]_vars

\* =================================================================== claims
BringUpPcs == {"init_begin", "iface_open", "iface_safeop", "iface_op"}
WritePcs == {"send_check", "send_io"}
ReturnPcs == {"fan_logged", "rec_ret", "chk_ret"}

\* C1: a send_to_device that found the link not ready (a handle missing, or
\* master or slave not OPERATIONAL when it checked) returns False and has
\* issued no bus I/O: no output byte written, no send, no receive.
C1_NotReadyNoBusIO ==
  (pc["ui"] = "send_exit" /\ ~req.linkReady)
    => /\ ~req.send_success
       /\ req.outcome = "notready"
       /\ req.io = {}

\* The write found both handles but the slave out of OPERATIONAL.
C1_Witness ==
  /\ pc["ui"] = "send_exit"
  /\ ~req.linkReady
  /\ master # NoMaster
  /\ master.op
  /\ ~req.send_success

\* C2: after a bus I/O error in the exchange, send_to_device returns False
\* with master and adecua_slave cleared and the master closed; and as long
\* as no bring-up has started since, the link is not healthy, so the next
\* check_ethercat_status takes the bring-up branch.
C2_TornDown ==
  /\ (pc["ui"] = "send_exit" /\ req.outcome = "ioerror")
       => /\ master = NoMaster
          /\ adecua_slave = NoSlave
          /\ req.used \notin opened
          /\ ~req.send_success
  /\ ioErrorPending => (~LinkHealthy /\ pc["sup"] # "chk_ok")

C2_NextCheckBringsUp ==
  (ioErrorPending /\ pc["sup"] = "chk_eval" /\ pc'["sup"] # "chk_eval")
    => pc'["sup"] = "init_begin"

\* C2: both parts, the state after the failed write and the step of the next
\* periodic check.
C2_IOErrorForcesBringUp == []C2_TornDown /\ [][C2_NextCheckBringsUp]_vars

\* The periodic check that followed the I/O error is about to bring up.
C2_Witness ==
  /\ ioErrorPending
  /\ pc["sup"] = "init_begin"
  /\ pc["ui"] = "fan_logged"
  /\ req.outcome = "ioerror"

\* C3: when the bring-up returns True, the committed pair belongs to the
\* interface the loop is at, that interface is the first of the list on
\* which open, device match, SAFE_OP and OPERATIONAL all succeeded, every
\* interface before it failed, and none after it was opened.
C3_FirstWorkingInterfaceWins ==
  \A t \in Recoverers :
    (pc[t] = ExitPc(t) /\ bu[t].result = "ok")
      => LET b == bu[t]
             k == Len(b.outcomes)
         IN /\ k >= 1
            /\ k = b.idx
            /\ b.outcomes[k] = "ok"
            /\ \A j \in 1..(k - 1) : b.outcomes[j] = "failed"
            /\ master.iface = b.ifaces[k]
            /\ master.id \in opened
            /\ adecua_slave.owner = master.id

\* Interface #1 failed, interface #2 went through to OPERATIONAL.
C3_Witness ==
  \E t \in Recoverers :
    /\ pc[t] = ExitPc(t)
    /\ bu[t].result = "ok"
    /\ bu[t].outcomes = <<"failed", "ok">>
    /\ master.iface = 2

\* C4: a request that reaches its return has appended exactly one row to the
\* log, whatever send_to_device returned; before that point it has appended
\* none.
C4_OneRowPerRequest ==
  /\ pc["ui"] = "fan_logged" => Len(log) = 1
  /\ pc["ui"] # "fan_logged" => Len(log) = 0

\* The row is there although the exchange failed with a bus I/O error.
C4_Witness ==
  /\ pc["ui"] = "fan_logged"
  /\ req.outcome = "ioerror"
  /\ Len(log) = 1

\* C5: the speed field of the row appended by an apply request is the speed
\* clamped to [0, MAX_KMH], next to the voltage computed from it.
C5_LoggedSpeedIsClamped ==
  (pc["ui"] = "fan_logged" /\ req.kind = "apply" /\ Len(log) >= 1)
    => /\ log[Len(log)].speed =
            Format2(Max(0, Min(req.kmh_value, MAX_KMH * 1000)))
       /\ log[Len(log)].voltage = Format2(calculate_voltage(req.kmh_value))

\* C6: a stop request asks send_to_device for voltage 0 and logs speed
\* "0.00" and voltage "0.00", whatever the link state and the speed input.
C6_StopSendsAndLogsZero ==
  req.kind = "stop"
    => /\ req.voltage_to_send = 0
       /\ pc["ui"] = "fan_logged"
            => log = <<[speed |-> 0, voltage |-> 0]>>

\* Stop with 12 km/h in the input, on a link that failed during the exchange.
C6_Witness ==
  /\ pc["ui"] = "fan_logged"
  /\ req.kind = "stop"
  /\ req.kmh_value = 12000
  /\ req.outcome = "ioerror"
  /\ log = <<[speed |-> 0, voltage |-> 0]>>

\* C7: the voltage text carries the failed marker exactly when
\* send_to_device did not deliver (not ready, or bus I/O error).
C7_FailedMarkerIffNotDelivered ==
  pc["ui"] = "fan_logged" => (req.failed <=> req.outcome # "ok")

\* A request on a link that was not ready, answered with the marker.
C7_Witness ==
  /\ pc["ui"] = "fan_logged"
  /\ req.outcome = "notready"
  /\ req.failed

\* C8: no bring-up is anywhere between its start and its return while a
\* write is between its readiness check and the end of its exchange.
C8_BringUpExcludesWrite ==
  \A t \in Recoverers : ~(pc[t] \in BringUpPcs /\ pc["ui"] \in WritePcs)

\* A write and the periodic check both wait while the manual reconnect is in
\* the middle of a bring-up.
C8_Witness ==
  /\ pc["rec"] = "iface_safeop"
  /\ pc["ui"] = "send_wait"
  /\ pc["sup"] = "chk_wait"

\* The status texts a callback's own run can have left in
\* ethercat_status_message when it let go of the lock.
OwnTexts(t) ==
  CASE t = "rec" -> {"Riconnesso", "ErrManuale"}
    [] t = "sup" -> {"Connesso", "Disconnesso"}
    [] t = "ui" ->
         CASE req.outcome = "ok" -> {"OKUltima"}
           [] req.outcome = "notready" -> {"NonInit", "NOK"}
           [] req.outcome = "ioerror" -> {"ErrSOEM", "ErrGen"}
           [] OTHER -> {}

\* C9: the status text a callback returns is read while it holds the lock,
\* so the text at its return statement is never one another task wrote after
\* the callback's own update: at the return either the lock is still held
\* or the text is still the callback's own.
C9_StatusReadUnderLock ==
  \A t \in Tasks :
    pc[t] \in ReturnPcs
      => \/ lock = t
         \/ ethercat_status_message \in OwnTexts(t)

\* C10 as stated: the periodic check and the manual reconnect start a
\* bring-up only when the link is not healthy.
C10_BringUpOnlyWhenUnhealthy ==
  \A t \in Recoverers : pc[t] \in BringUpPcs => ~bu[t].sawHealthy

\* C10 as amended: the periodic check starts a bring-up only when the link is
\* not healthy, and when it found the link healthy it leaves master and
\* adecua_slave as they are and closes nothing; the manual reconnect always
\* starts a bring-up.
C10_PeriodicState ==
  /\ pc["sup"] \in BringUpPcs => ~bu["sup"].sawHealthy
  /\ (pc["sup"] \in {"chk_ok", "chk_exit"} /\ bu["sup"].sawHealthy)
       => /\ master # NoMaster
          /\ master.id \in opened
          /\ adecua_slave.owner = master.id

C10_PeriodicStep ==
  /\ pc["sup"] = "chk_ok"
       => /\ master'.id = master.id
          /\ adecua_slave'.owner = adecua_slave.owner
          /\ opened' = opened
  /\ (pc["rec"] = "rec_wait" /\ pc'["rec"] # "rec_wait")
       => pc'["rec"] = "init_begin"

\* C10 as amended: both parts, in every state and at every step.
C10_PeriodicBringUpOnlyWhenUnhealthy ==
  []C10_PeriodicState /\ [][C10_PeriodicStep]_vars

\* The periodic check found the link healthy and is about to leave.
C10_Witness ==
  /\ pc["sup"] = "chk_exit"
  /\ bu["sup"].sawHealthy
  /\ LinkHealthy

\* The texts that say more than "connected and operational": the last
\* voltage of a write that went through, the manual reconnect that succeeded.
SpecificTexts == {"OKUltima", "Riconnesso"}

\* C11: a periodic check that found the link healthy leaves a more specific
\* status text (last voltage sent, reconnected) as it is; it writes the
\* connected text only when no such text is present, and leaves the
\* connected text unchanged.
C11_HealthyCheckKeepsSpecificText ==
  [][(pc["sup"] = "chk_ok" /\ pc'["sup"] = "chk_exit"
        /\ ethercat_status_message \in SpecificTexts \cup {"Connesso"})
       => ethercat_status_message' = ethercat_status_message]_vars

\* C12: when a check that found the link unhealthy, or a manual reconnect,
\* is about to leave its with block, the status text agrees with the
\* handles: the connected (reconnected) text exactly when the bring-up
\* returned True and a pair seen in SAFE_OP and then OPERATIONAL is
\* committed on an open master, the disconnected (error) text exactly when
\* it returned False and both handles are None.
C12_StatusAgreesWithHandles ==
  \A t \in Recoverers :
    (pc[t] = ExitPc(t) /\ bu[t].result # "none")
      => LET committed ==
               /\ bu[t].result = "ok"
               /\ master # NoMaster
               /\ adecua_slave # NoSlave
               /\ adecua_slave.owner = master.id
               /\ master.id \in opened
               /\ bu[t].outcomes # <<>>
               /\ bu[t].outcomes[Len(bu[t].outcomes)] = "ok"
             absent ==
               /\ bu[t].result = "fail"
               /\ master = NoMaster
               /\ adecua_slave = NoSlave
         IN /\ ethercat_status_message
                 \in {status_after_init(t, TRUE), status_after_init(t, FALSE)}
            /\ ethercat_status_message = status_after_init(t, TRUE)
                 <=> committed
            /\ ethercat_status_message = status_after_init(t, FALSE)
                 <=> absent

\* The periodic check tried both interfaces in vain and says disconnected.
C12_Witness ==
  /\ pc["sup"] = "chk_exit"
  /\ bu["sup"].result = "fail"
  /\ bu["sup"].outcomes = <<"failed", "failed">>
  /\ ethercat_status_message = "Disconnesso"
  /\ master = NoMaster

\* C13: no fault of the bus library leaves a callback as an exception:
\* every callback ends by returning.
C13_NoFaultEscapes == \A t \in Tasks : pc[t] # "fault"

\* clamp(speed, 0, MAX_KMH), in thousandths.
ClampedSpeed(kmh) == Max(0, Min(kmh, MAX_KMH * 1000))

\* C14: for every speed of the grid over [-SpeedRange, SpeedRange],
\* calculate_voltage returns clamp(speed, 0, MAX_KMH) / MAX_KMH * MAX_VOLTAGE
\* (to the thousandth of a volt); the result lies in [0, MAX_VOLTAGE], no
\* smaller speed of the grid gives a larger voltage, and the speeds 0,
\* MAX_KMH and MAX_KMH + 5 give 0, MAX_VOLTAGE and MAX_VOLTAGE.
C14_VoltageIsClampedLinear ==
  (pc["ui"] = "calc_done" /\ req.kind = "apply")
    => LET k == req.kmh_value
           v == req.voltage_to_send
       IN /\ v * MAX_KMH <= ClampedSpeed(k) * MAX_VOLTAGE
          /\ ClampedSpeed(k) * MAX_VOLTAGE < (v + 1) * MAX_KMH
          /\ 0 <= v
          /\ v <= MAX_VOLTAGE * 1000
          /\ \A j \in SpeedGrid : j <= k => calculate_voltage(j) <= v
          /\ k = 0 => v = 0
          /\ k = MAX_KMH * 1000 => v = MAX_VOLTAGE * 1000
          /\ k = (MAX_KMH + 5) * 1000 => v = MAX_VOLTAGE * 1000

\* calculate_voltage(MAX_KMH + 5) came out as MAX_VOLTAGE.
C14_Witness ==
  /\ pc["ui"] = "calc_done"
  /\ req.kind = "apply"
  /\ req.kmh_value = (MAX_KMH + 5) * 1000
  /\ req.voltage_to_send = MAX_VOLTAGE * 1000

\* round(clamp(voltage, 0, MAX_VOLTAGE) / MAX_VOLTAGE * 32767), for a voltage
\* in thousandths.
RoundedRaw(voltage) ==
  LET v == Max(0, Min(voltage, MAX_VOLTAGE * 1000))
  IN (2 * v * RAW_FULL_SCALE + MAX_VOLTAGE * 1000) \div (2 * MAX_VOLTAGE * 1000)

\* C15: for every voltage given to send_to_device, negative and above
\* MAX_VOLTAGE included, the raw value written is the clamped voltage scaled
\* to 32767 and rounded to the nearest integer, and lies in [0, 32767].
C15_RawIsRounded ==
  (pc["ui"] = "calc_done" /\ req.kind = "write")
    => /\ req.raw = RoundedRaw(req.voltage_to_send)
       /\ 0 <= req.raw
       /\ req.raw <= RAW_FULL_SCALE

\* C16: while no task holds the lock, master and adecua_slave are both None
\* or both set; when set, the slave was found under exactly that master,
\* which is still open.  A write in its exchange uses that same pair: never
\* the slave of a master that was closed or replaced.
C16_HandlesPaired ==
  /\ lock = "free"
       => /\ (master = NoMaster) <=> (adecua_slave = NoSlave)
          /\ master # NoMaster
               => /\ adecua_slave.owner = master.id
                  /\ master.id \in opened
  /\ pc["ui"] = "send_io"
       => /\ master # NoMaster
          /\ req.used = master.id
          /\ adecua_slave.owner = req.used
          /\ req.used \in opened

\* A write tore the link down; a bring-up has since committed a new pair and
\* let go of the lock.
C16_Witness ==
  /\ lock = "free"
  /\ pc["ui"] = "fan_logged"
  /\ req.outcome = "ioerror"
  /\ master # NoMaster
  /\ adecua_slave.owner = master.id

\* C17: at most one master is open at any moment: the committed one, or the
\* one of the interface the bring-up is trying.  Whenever the bring-up is
\* about to open an interface none is open (the old master and every
\* abandoned one were closed), and a write that hit a bus I/O error has
\* closed its master.
C17_AtMostOneMasterOpen ==
  /\ Cardinality(opened) <= 1
  /\ master # NoMaster => opened = {master.id}
  /\ \A t \in Recoverers :
       /\ pc[t] = "iface_open" => opened = {}
       /\ pc[t] \in {"iface_safeop", "iface_op"} => opened = {bu[t].cur.id}
  /\ (pc["ui"] = "send_exit" /\ req.outcome = "ioerror") => opened = {}

\* The manual reconnect replaced a healthy master: interface #1 was given up
\* because the slave did not reach OPERATIONAL, interface #2 is being tried
\* and its master is the only one open.
C17_Witness ==
  /\ pc["rec"] = "iface_safeop"
  /\ bu["rec"].sawHealthy
  /\ bu["rec"].idx = 2
  /\ bu["rec"].abandoned = "op"
  /\ opened = {bu["rec"].cur.id}

\* C18: when the bring-up has returned False (no interface, enumeration
\* failed, or every interface given up), master and adecua_slave are None
\* and no master is open, also when the link was healthy at its start.
C18_FailedBringUpLeavesNothing ==
  \A t \in Recoverers :
    (pc[t] = ExitPc(t) /\ bu[t].result = "fail")
      => /\ master = NoMaster
         /\ adecua_slave = NoSlave
         /\ opened = {}

\* The manual reconnect found no interface although the link was healthy.
C18_Witness ==
  /\ pc["rec"] = "rec_exit"
  /\ bu["rec"].result = "fail"
  /\ bu["rec"].sawHealthy
  /\ bu["rec"].outcomes = <<>>
  /\ master = NoMaster
  /\ opened = {}

\* C19, in every state: OPERATIONAL is asked for only once the slave was seen
\* in SAFE_OP, and a bring-up that returned True saw the committed slave in
\* SAFE_OP and then in OPERATIONAL.
C19_State ==
  \A t \in Recoverers :
    LET b == bu[t]
    IN /\ pc[t] = "iface_op"
            => /\ b.curSlave.state = "SAFE_OP"
               /\ b.outcomes[Len(b.outcomes)] = "safeop"
       /\ (pc[t] = ExitPc(t) /\ b.result = "ok")
            => /\ b.outcomes[Len(b.outcomes)] = "ok"
               /\ adecua_slave.owner = master.id

\* The bring-up of task t leaves the SAFE_OP or OPERATIONAL step of an
\* interface without having seen the state it asked for.
C19_GivesUp(t) ==
  /\ pc[t] \in {"iface_safeop", "iface_op"}
  /\ pc'[t] # pc[t]
  /\ ~(pc[t] = "iface_safeop" /\ pc'[t] = "iface_op")
  /\ bu'[t].result # "ok"

\* C19, at every step: an interface given up at the SAFE_OP or OPERATIONAL
\* step has its master closed and commits nothing, and the bring-up goes on
\* to the next interface; it returns False only when there is none left.
C19_Step ==
  \A t \in Recoverers :
    C19_GivesUp(t)
      => /\ bu[t].cur.id \notin opened'
         /\ master' = NoMaster
         /\ adecua_slave' = NoSlave
         /\ IF bu[t].idx < Len(bu[t].ifaces)
              THEN /\ pc'[t] = "iface_open"
                   /\ bu'[t].idx = bu[t].idx + 1
                   /\ bu'[t].result = "none"
              ELSE /\ pc'[t] = ExitPc(t)
                   /\ bu'[t].result = "fail"

\* C19: both parts.
C19_CommitAfterSafeOpThenOp == []C19_State /\ [][C19_Step]_vars

\* Interface #1 was given up at the SAFE_OP step; interface #2 then went
\* through SAFE_OP and OPERATIONAL and was committed.
C19_Witness ==
  \E t \in Recoverers :
    /\ pc[t] = ExitPc(t)
    /\ bu[t].result = "ok"
    /\ bu[t].abandoned = "safeop"
    /\ bu[t].idx = 2
    /\ master.iface = 2

\* C20: only the first bring-up since the process started takes the 3 s
\* settle delay; one that starts after an earlier bring-up goes to the
\* interface enumeration without it.
C20_SettleDelayOnlyFirst ==
  [][\A t \in Recoverers :
       (pc[t] = "init_begin" /\ pc'[t] # "init_begin" /\ initAttempted)
         => ~bu'[t].settled]_vars

\* C21, at every step: a step of the fan request starts no bring-up and
\* opens no master (it changes master only by clearing it); the request
\* goes once through the readiness check, at most once through the
\* exchange, then to the log and the return, never back; and a bring-up is
\* entered only by the manual reconnect and the periodic check.
C21_Step ==
  /\ pc'["ui"] # pc["ui"]
       => /\ bu' = bu
          /\ initAttempted' = initAttempted
          /\ opened' \subseteq opened
          /\ master' \in {master, NoMaster}
  /\ pc["ui"] = "send_check"
       => pc'["ui"] \in {"send_check", "send_io", "send_exit", "fault"}
  /\ pc["ui"] = "send_io" => pc'["ui"] \in {"send_io", "send_exit"}
  /\ pc["ui"] = "send_exit" => pc'["ui"] \in {"send_exit", "fan_logged"}
  /\ pc["ui"] = "fan_logged" => pc'["ui"] \in {"fan_logged", "idle"}
  /\ (initAttempted' # initAttempted \/ bu' # bu)
       => \E t \in Recoverers : pc'[t] # pc[t] \/ bu'[t] # bu[t]

\* C21: send_to_device and handle_fan_control never call the bring-up and
\* never retry: one readiness check, at most one exchange per request.
C21_WriteNeverBringsUp ==
  /\ [](pc["ui"] \notin BringUpPcs)
  /\ [][C21_Step]_vars

\* The request whose exchange failed is at its return: the link is torn
\* down, no bring-up has started, the other two callbacks are idle.
C21_Witness ==
  /\ pc["ui"] = "fan_logged"
  /\ req.outcome = "ioerror"
  /\ ioErrorPending
  /\ master = NoMaster
  /\ pc["rec"] = "idle"
  /\ pc["sup"] = "idle"

\* Where a callback waits for the lock, and where it holds it.
WaitPcs == {"send_wait", "rec_wait", "chk_wait"}
HoldPcs ==
  {"send_check", "send_io", "send_exit", "chk_eval", "chk_ok", "rec_exit",
   "chk_exit"} \cup BringUpPcs

\* C23, in every state: a callback holds the lock exactly while it is inside
\* its with block; outside of it (idle, waiting, at its return, ended by an
\* exception) it does not.  So the lock is free whenever nobody is inside a
\* with block, and a holder never waits for it.
C23_State ==
  /\ \A t \in Tasks : lock = t <=> pc[t] \in HoldPcs
  /\ lock \in Tasks \cup {"free"}
  /\ (\A t \in Tasks : pc[t] \notin HoldPcs) => lock = "free"

\* C23: the lock is released on every way out of the three with blocks, no
\* callback asks for it while holding it, and under fair scheduling every
\* callback waiting for the lock gets it.
C23_LockReleasedAndAcquired ==
  /\ []C23_State
  /\ \A t \in Tasks : (pc[t] \in WaitPcs) ~> (lock = t)

\* All three callbacks are at the lock: the write holds it after a bus I/O
\* error, the manual reconnect and the periodic check wait.
C23_Witness ==
  /\ lock = "ui"
  /\ pc["ui"] = "send_exit"
  /\ req.outcome = "ioerror"
  /\ pc["rec"] = "rec_wait"
  /\ pc["sup"] = "chk_wait"

\* A bring-up returns False in this step.
BringUpFails ==
  \E t \in Recoverers : bu[t].result # "fail" /\ bu'[t].result = "fail"

\* C22, at every step: the periodic check that evaluates a link that is not
\* healthy goes on to the bring-up.
C22_UnhealthyCheckBringsUp ==
  (pc["sup"] = "chk_eval" /\ pc'["sup"] # "chk_eval" /\ ~LinkHealthy)
    => pc'["sup"] = "init_begin"

\* C22, in the long run: if from some point on no bring-up fails, a link
\* that is not healthy becomes healthy.
C22_EventuallyHealthy ==
  (<>[][~BringUpFails]_vars) => (~LinkHealthy ~> LinkHealthy)

\* C22: the link has no terminal state: from every state in which it is not
\* healthy the next periodic check starts a bring-up, and under fair
\* scheduling, once an interface can be brought to OPERATIONAL, the link
\* becomes healthy again.
C22_NoTerminalState ==
  /\ [][C22_UnhealthyCheckBringsUp]_vars
  /\ C22_EventuallyHealthy

====
